---- MODULE Spec2Model ----
(***************************************************************************)
(* Model of homework.py: the workout calculator (InfoMessage, Training,    *)
(* Running, SportsWalking, Swimming, read_package, main and the driver     *)
(* loop under __main__).                                                   *)
(*                                                                         *)
(* Numbers.  Python computes with floats; the model computes with exact    *)
(* rationals <<n, d>> (d > 0, lowest terms).  <<0, 0>> stands for a        *)
(* computation that raised ZeroDivisionError: every arithmetic operator    *)
(* propagates it, as the exception propagates through the expression.      *)
(* None is the empty tuple.  The ':.3f' conversion is modelled as rounding *)
(* to an integer number of thousandths.                                    *)
(***************************************************************************)
EXTENDS Integers, Sequences, FiniteSets

VARIABLES packages, idx, pc, training, info, out, err, calls

vars == <<packages, idx, pc, training, info, out, err, calls>>

-----------------------------------------------------------------------------
(* Bounds of the model *)

MaxPackages == 3
MaxCalls == 2
MaxData == 6

-----------------------------------------------------------------------------
(* Exact rational arithmetic standing for Python's float arithmetic *)

None == <<>>
DivErr == <<0, 0>>

Abs(x) == IF x < 0 THEN -x ELSE x

RECURSIVE GCD(_, _)
GCD(a, b) == IF b = 0 THEN a ELSE GCD(b, a % b)

Norm(n, d) == LET g == GCD(Abs(n), d) IN <<n \div g, d \div g>>

R(i) == <<i, 1>>

IsErr(a) == a[2] = 0

RMul(a, b) ==
    IF IsErr(a) \/ IsErr(b) THEN DivErr
    ELSE LET g1 == GCD(Abs(a[1]), b[2])
             g2 == GCD(Abs(b[1]), a[2])
         IN  Norm((a[1] \div g1) * (b[1] \div g2), (a[2] \div g2) * (b[2] \div g1))

RDiv(a, b) ==
    IF IsErr(a) \/ IsErr(b) \/ b[1] = 0 THEN DivErr
    ELSE RMul(a, <<b[2], b[1]>>)

RAdd(a, b) ==
    IF IsErr(a) \/ IsErr(b) THEN DivErr
    ELSE LET g == GCD(a[2], b[2])
         IN  Norm(a[1] * (b[2] \div g) + b[1] * (a[2] \div g), (a[2] \div g) * b[2])

(* ':.3f': the number of thousandths nearest to a (a >= 0), ties to even *)
Fmt3(a) ==
    LET q  == a[1] \div a[2]
        r0 == a[1] % a[2]
        d1 == (r0 * 10) \div a[2]
        r1 == (r0 * 10) % a[2]
        d2 == (r1 * 10) \div a[2]
        r2 == (r1 * 10) % a[2]
        d3 == (r2 * 10) \div a[2]
        r3 == (r2 * 10) % a[2]
        m  == q * 1000 + d1 * 100 + d2 * 10 + d3
    IN  IF 2 * r3 > a[2] THEN m + 1
        ELSE IF 2 * r3 < a[2] THEN m
        ELSE IF m % 2 = 0 THEN m ELSE m + 1

-----------------------------------------------------------------------------
(* Class constants *)

M_IN_KM == 1000
HOURS_IN_MIN == 60
CM_IN_M == 100
Running_CALORIES_MEAN_SPEED_MULTIPLIER == 18
Swimming_CALORIES_SPEED_MULTIPLIER == 2

(* mutant: Swimming does not redefine LEN_STEP *)
LEN_STEP_NoOverride(cls) == <<13, 20>>

(* LEN_STEP looked up on the instance's class: Swimming redefines it *)
LEN_STEP(cls) == IF cls = "Swimming" THEN <<69, 50>> ELSE <<13, 20>>

Running_CALORIES_MEAN_SPEED_SHIFT == <<179, 100>>
Swimming_CALORIES_MEAN_SPEED_SHIFT == <<11, 10>>
CALORIES_WEIGHT_MULTIPLIER == <<7, 200>>
CALORIES_WEIGHT_SECOND_MULTIPLIER == <<29, 1000>>
KMH_IN_MS == <<139, 500>>

-----------------------------------------------------------------------------
(* Constructors: positional binding of the data to __init__'s parameters *)

InitParams(cls) ==
    IF cls = "Swimming" THEN <<"action", "duration", "weight", "length_pool", "count_pool">>
    ELSE IF cls = "SportsWalking" THEN <<"action", "duration", "weight", "height">>
    ELSE <<"action", "duration", "weight">>

(* the class whose __init__ runs (Running inherits Training's) *)
InitOwner(cls) == IF cls = "Running" THEN "Training" ELSE cls

(* mutant: surplus positional arguments are dropped instead of rejected *)
Construct_Truncate(cls, data) ==
    LET ps == InitParams(cls) IN
    IF Len(data) < Len(ps)
    THEN [ok |-> FALSE, type |-> "TypeError",
          detail |-> [fn |-> InitOwner(cls), takes |-> 0, given |-> 0,
                      missing |-> SubSeq(ps, Len(data) + 1, Len(ps))]]
    ELSE [ok |-> TRUE,
          obj |-> [cls |-> cls,
                   attrs |-> [n \in {ps[i] : i \in 1..Len(ps)} |->
                                data[CHOOSE i \in 1..Len(ps) : ps[i] = n]]]]

Construct(cls, data) ==
    LET ps == InitParams(cls) IN
    IF Len(data) > Len(ps)
    THEN [ok |-> FALSE, type |-> "TypeError",
          detail |-> [fn |-> InitOwner(cls), takes |-> Len(ps) + 1,
                      given |-> Len(data) + 1, missing |-> <<>>]]
    ELSE IF Len(data) < Len(ps)
    THEN [ok |-> FALSE, type |-> "TypeError",
          detail |-> [fn |-> InitOwner(cls), takes |-> 0, given |-> 0,
                      missing |-> SubSeq(ps, Len(data) + 1, Len(ps))]]
    ELSE [ok |-> TRUE,
          obj |-> [cls |-> cls,
                   attrs |-> [n \in {ps[i] : i \in 1..Len(ps)} |->
                                data[CHOOSE i \in 1..Len(ps) : ps[i] = n]]]]

(* read_package *)
Codes == {"SWM", "RUN", "WLK"}

training_type_to_class(code) ==
    IF code = "SWM" THEN "Swimming"
    ELSE IF code = "RUN" THEN "Running"
    ELSE "SportsWalking"

(* mutant: an unknown code falls back to Running (dict.get with a default) *)
read_package_Default(workout_type, data) ==
    IF workout_type \notin Codes
    THEN Construct("Running", data)
    ELSE Construct(training_type_to_class(workout_type), data)

read_package(workout_type, data) ==
    IF workout_type \notin Codes
    THEN [ok |-> FALSE, type |-> "KeyError", detail |-> <<workout_type>>]
    ELSE Construct(training_type_to_class(workout_type), data)

-----------------------------------------------------------------------------
(* Methods of Training and its subclasses *)

get_distance(t) ==
    RDiv(RMul(R(t.attrs["action"]), LEN_STEP(t.cls)), R(M_IN_KM))

(* mutant: Swimming inherits Training.get_mean_speed *)
get_mean_speed_Inherited(t) == RDiv(get_distance(t), R(t.attrs["duration"]))

(* mutant: Training.get_mean_speed forgets the duration *)
get_mean_speed_NoDivide(t) ==
    IF t.cls = "Swimming"
    THEN RDiv(RDiv(RMul(R(t.attrs["length_pool"]), R(t.attrs["count_pool"])),
                   R(M_IN_KM)),
              R(t.attrs["duration"]))
    ELSE get_distance(t)

get_mean_speed(t) ==
    IF t.cls = "Swimming"
    THEN RDiv(RDiv(RMul(R(t.attrs["length_pool"]), R(t.attrs["count_pool"])),
                   R(M_IN_KM)),
              R(t.attrs["duration"]))
    ELSE RDiv(get_distance(t), R(t.attrs["duration"]))

(* mutant: the duration is left in hours *)
RunningCalories_Hours(t) ==
    RMul(RDiv(RMul(RAdd(RMul(R(Running_CALORIES_MEAN_SPEED_MULTIPLIER), get_mean_speed(t)),
                        Running_CALORIES_MEAN_SPEED_SHIFT),
                   R(t.attrs["weight"])),
              R(M_IN_KM)),
         R(t.attrs["duration"]))

RunningCalories(t) ==
    RMul(RMul(RDiv(RMul(RAdd(RMul(R(Running_CALORIES_MEAN_SPEED_MULTIPLIER), get_mean_speed(t)),
                             Running_CALORIES_MEAN_SPEED_SHIFT),
                        R(t.attrs["weight"])),
                   R(M_IN_KM)),
              R(t.attrs["duration"])),
         R(HOURS_IN_MIN))

WalkingCalories(t) ==
    LET ms == RMul(get_mean_speed(t), KMH_IN_MS) IN
    RMul(RMul(RAdd(RMul(CALORIES_WEIGHT_MULTIPLIER, R(t.attrs["weight"])),
                   RMul(RMul(RDiv(RMul(ms, ms),
                                  RDiv(R(t.attrs["height"]), R(CM_IN_M))),
                             CALORIES_WEIGHT_SECOND_MULTIPLIER),
                        R(t.attrs["weight"]))),
              R(t.attrs["duration"])),
         R(HOURS_IN_MIN))

SwimmingCalories(t) ==
    RMul(RMul(RMul(RAdd(get_mean_speed(t), Swimming_CALORIES_MEAN_SPEED_SHIFT),
                   R(Swimming_CALORIES_SPEED_MULTIPLIER)),
              R(t.attrs["weight"])),
         R(t.attrs["duration"]))

get_spent_calories(t) ==
    IF t.cls = "Running" THEN RunningCalories(t)
    ELSE IF t.cls = "SportsWalking" THEN WalkingCalories(t)
    ELSE IF t.cls = "Swimming" THEN SwimmingCalories(t)
    ELSE None

Raised(v) == v # None /\ IsErr(v)

(* mutant: distance and speed are passed in each other's position *)
show_training_info_Swapped(t) ==
    LET dist == get_distance(t)
        speed == get_mean_speed(t)
        cal == get_spent_calories(t)
    IN  IF Raised(dist) \/ Raised(speed) \/ Raised(cal)
        THEN [ok |-> FALSE, type |-> "ZeroDivisionError", detail |-> <<>>]
        ELSE [ok |-> TRUE,
              obj |-> [training_type |-> t.cls,
                       duration |-> R(t.attrs["duration"]),
                       distance |-> speed,
                       speed |-> dist,
                       calories |-> cal]]

(* show_training_info: the InfoMessage, or the exception of an argument *)
show_training_info(t) ==
    LET dist == get_distance(t)
        speed == get_mean_speed(t)
        cal == get_spent_calories(t)
    IN  IF Raised(dist) \/ Raised(speed) \/ Raised(cal)
        THEN [ok |-> FALSE, type |-> "ZeroDivisionError", detail |-> <<>>]
        ELSE [ok |-> TRUE,
              obj |-> [training_type |-> t.cls,
                       duration |-> R(t.attrs["duration"]),
                       distance |-> dist,
                       speed |-> speed,
                       calories |-> cal]]

(* InfoMessage.get_message: the rendered line, or TypeError on None *)
get_message(m) ==
    IF m.duration = None \/ m.distance = None \/ m.speed = None \/ m.calories = None
    THEN [ok |-> FALSE, type |-> "TypeError", detail |-> <<>>]
    ELSE [ok |-> TRUE,
          obj |-> [training_type |-> m.training_type,
                   duration |-> Fmt3(m.duration),
                   distance |-> Fmt3(m.distance),
                   speed |-> Fmt3(m.speed),
                   calories |-> Fmt3(m.calories)]]

-----------------------------------------------------------------------------
(* Inputs *)

(* TLC's integers have 32 bits.  The walking formula squares the speed, so *)
(* the walking inputs are those whose exact intermediate values fit.       *)
DataValues(c, i) ==
    IF c = "WLK"
    THEN IF i = 1 THEN {0, 10000}
         ELSE IF i = 2 THEN {0, 1}
         ELSE IF i = 3 THEN {75, 80}
         ELSE IF i = 4 THEN {0, 100, 200}
         ELSE {1}
    ELSE IF i = 1 THEN {0, 720, 15000}
         ELSE IF i = 2 THEN {0, 1, 2}
         ELSE IF i = 3 THEN {75, 80}
         ELSE IF i = 4 THEN {25, 50}
         ELSE IF i = 5 THEN {0, 40}
         ELSE {1}

RECURSIVE DataOfLen(_, _)
DataOfLen(c, n) ==
    IF n = 0 THEN {<<>>}
    ELSE {Append(d, v) : d \in DataOfLen(c, n - 1), v \in DataValues(c, n)}

AllCodes == Codes \cup {"XYZ"}

(* every (code, data) record with at most MaxData parameters *)
Records ==
    UNION {{<<c, d>> : d \in UNION {DataOfLen(c, n) : n \in 0..MaxData}} : c \in AllCodes}

(* the packages of the __main__ block (the walking one with inputs that    *)
(* fit), and records that fail                                             *)
DriverRecords ==
    { <<"SWM", <<720, 1, 80, 25, 40>>>>,
      <<"RUN", <<15000, 1, 75>>>>,
      <<"WLK", <<10000, 1, 80, 200>>>>,
      <<"XYZ", <<1, 2, 3>>>>,
      <<"RUN", <<1, 2>>>>,
      <<"WLK", <<10000, 1, 80, 200, 1>>>>,
      <<"RUN", <<15000, 0, 75>>>> }

RECURSIVE SeqsUpTo(_, _)
SeqsUpTo(S, n) ==
    IF n = 0 THEN {<<>>}
    ELSE SeqsUpTo(S, n - 1)
         \cup {Append(s, x) : s \in {t \in SeqsUpTo(S, n - 1) : Len(t) = n - 1}, x \in S}

-----------------------------------------------------------------------------
(* The driver: for workout_type, data in packages: read_package; main *)

Methods == {"get_distance", "get_mean_speed", "get_spent_calories",
            "show_training_info", "get_message"}

NoCalls == [m \in Methods |-> <<>>]

InitCommon ==
    /\ idx = 1
    /\ pc = "loop"
    /\ training = None
    /\ info = None
    /\ out = <<>>
    /\ err = None
    /\ calls = NoCalls

Init ==
    /\ packages \in SeqsUpTo(DriverRecords, MaxPackages)
    /\ InitCommon

InitOne ==
    /\ packages \in {<<r>> : r \in Records}
    /\ InitCommon

(* mutant: a record that fails to dispatch is skipped and the loop goes on *)
ReadPackage_Skip ==
    /\ pc = "loop"
    /\ idx <= Len(packages)
    /\ LET r == read_package(packages[idx][1], packages[idx][2]) IN
       IF r.ok
       THEN /\ training' = r.obj
            /\ pc' = "main"
            /\ err' = err
            /\ idx' = idx
       ELSE /\ err' = [type |-> r.type, detail |-> r.detail]
            /\ pc' = "loop"
            /\ idx' = idx + 1
            /\ training' = training
    /\ UNCHANGED <<packages, info, out, calls>>

(* training = read_package(workout_type, data) *)
ReadPackage ==
    /\ pc = "loop"
    /\ idx <= Len(packages)
    /\ LET r == read_package(packages[idx][1], packages[idx][2]) IN
       IF r.ok
       THEN /\ training' = r.obj
            /\ pc' = "main"
            /\ err' = err
       ELSE /\ err' = [type |-> r.type, detail |-> r.detail]
            /\ pc' = "failed"
            /\ training' = training
    /\ UNCHANGED <<packages, idx, info, out, calls>>

(* main(training): info = training.show_training_info(); print(info.get_message()) *)
Main ==
    /\ pc = "main"
    /\ LET i == show_training_info(training) IN
       IF ~i.ok
       THEN /\ err' = [type |-> i.type, detail |-> i.detail]
            /\ pc' = "failed"
            /\ UNCHANGED <<info, out, idx>>
       ELSE LET m == get_message(i.obj) IN
            IF ~m.ok
            THEN /\ err' = [type |-> m.type, detail |-> m.detail]
                 /\ pc' = "failed"
                 /\ info' = i.obj
                 /\ UNCHANGED <<out, idx>>
            ELSE /\ info' = i.obj
                 /\ out' = Append(out, m.obj)
                 /\ idx' = idx + 1
                 /\ pc' = "loop"
                 /\ err' = err
    /\ UNCHANGED <<packages, training, calls>>

(* the for loop is exhausted *)
LoopEnd ==
    /\ pc = "loop"
    /\ idx > Len(packages)
    /\ pc' = "done"
    /\ UNCHANGED <<packages, idx, training, info, out, err, calls>>

Next == ReadPackage \/ Main \/ LoopEnd

Spec == Init /\ [][Next]_vars

SpecOne == InitOne /\ [][Next]_vars

-----------------------------------------------------------------------------
(* A client that holds one instance and calls its methods in any order *)

(* instances built directly by the constructors, the base class included *)
Instances ==
    { Construct("Training", <<720, 1, 75>>).obj,
      Construct("Training", <<720, 0, 75>>).obj,
      Construct("Running", <<15000, 1, 75>>).obj,
      Construct("Running", <<15000, 2, 80>>).obj,
      Construct("Running", <<15000, 0, 75>>).obj,
      Construct("SportsWalking", <<10000, 1, 80, 200>>).obj,
      Construct("SportsWalking", <<10000, 1, 75, 0>>).obj,
      Construct("Swimming", <<720, 1, 80, 25, 40>>).obj,
      Construct("Swimming", <<720, 2, 75, 50, 40>>).obj }

(* the value a method returns, or the exception it raises *)
Returned(v) ==
    IF Raised(v) THEN [ok |-> FALSE, type |-> "ZeroDivisionError", detail |-> <<>>]
    ELSE [ok |-> TRUE, obj |-> v]

(* mutant: get_distance consumes the action counter *)
TrainingCall_Mutating(m, t) ==
    [self |-> IF m = "get_distance" THEN [t EXCEPT !.attrs["action"] = 0] ELSE t,
     result |-> IF m = "get_distance" THEN Returned(get_distance(t))
                ELSE IF m = "get_mean_speed" THEN Returned(get_mean_speed(t))
                ELSE IF m = "get_spent_calories" THEN Returned(get_spent_calories(t))
                ELSE show_training_info(t)]

(* one call of a Training method: the instance afterwards and the outcome; *)
(* no method assigns to an attribute                                       *)
TrainingCall(m, t) ==
    [self |-> t,
     result |-> IF m = "get_distance" THEN Returned(get_distance(t))
                ELSE IF m = "get_mean_speed" THEN Returned(get_mean_speed(t))
                ELSE IF m = "get_spent_calories" THEN Returned(get_spent_calories(t))
                ELSE show_training_info(t)]

(* one call of InfoMessage.get_message *)
MessageCall(i) == [self |-> i, result |-> get_message(i)]

InitCalls ==
    /\ packages = <<>>
    /\ idx = 1
    /\ pc = "calls"
    /\ training \in Instances
    /\ info = None
    /\ out = <<>>
    /\ err = None
    /\ calls = NoCalls

CallTraining(m) ==
    /\ pc = "calls"
    /\ Len(calls[m]) < MaxCalls
    /\ LET c == TrainingCall(m, training) IN
       /\ training' = c.self
       /\ calls' = [calls EXCEPT ![m] = Append(@, c.result)]
       /\ info' = IF m = "show_training_info" /\ c.result.ok THEN c.result.obj ELSE info
    /\ UNCHANGED <<packages, idx, pc, out, err>>

CallGetDistance == CallTraining("get_distance")

CallGetMeanSpeed == CallTraining("get_mean_speed")

CallGetSpentCalories == CallTraining("get_spent_calories")

CallShowTrainingInfo == CallTraining("show_training_info")

CallGetMessage ==
    /\ pc = "calls"
    /\ info # None
    /\ Len(calls["get_message"]) < MaxCalls
    /\ LET c == MessageCall(info) IN
       /\ info' = c.self
       /\ calls' = [calls EXCEPT !["get_message"] = Append(@, c.result)]
    /\ UNCHANGED <<packages, idx, pc, training, out, err>>

NextCalls ==
    \/ CallGetDistance
    \/ CallGetMeanSpeed
    \/ CallGetSpentCalories
    \/ CallShowTrainingInfo
    \/ CallGetMessage

SpecCalls == InitCalls /\ [][NextCalls]_vars

-----------------------------------------------------------------------------
(* Properties *)

(* the record packages[idx - 1] has been dispatched and its line printed;  *)
(* training and info are the objects built for it                          *)
Processed == idx > 1 /\ pc \in {"loop", "done"}

(* read_package has acted on a record: the one at Cur *)
Dispatched == pc \in {"main", "failed"} \/ Processed

Cur == IF pc \in {"main", "failed"} THEN idx ELSE idx - 1

(* the parameters of each code, in the order the dispatcher binds them *)
Arity(code) == IF code = "SWM" THEN 5 ELSE IF code = "WLK" THEN 4 ELSE 3

ParamOrder(code) ==
    IF code = "SWM" THEN <<"action", "duration", "weight", "length_pool", "count_pool">>
    ELSE IF code = "WLK" THEN <<"action", "duration", "weight", "height">>
    ELSE <<"action", "duration", "weight">>

Names(detail) == {detail[i] : i \in 1..Len(detail)}

(* C1, as stated: the distance of a Swimming activity built from "SWM" is  *)
(* pool_length_m * pool_lap_count / 1000                                   *)
C1_PoolDistance ==
    (Processed /\ packages[idx - 1][1] = "SWM") =>
        LET data == packages[idx - 1][2] IN
        info.distance = RDiv(RMul(R(data[4]), R(data[5])), R(1000))

(* C1, amended: the distance of a Swimming activity built from "SWM" is    *)
(* action_count * 1.38 / 1000, whatever the pool length and the lap count; *)
(* ("SWM", [720, 1, 80, 25, 40]) prints distance 0.994                     *)
C1_StrokeDistance ==
    (Processed /\ packages[idx - 1][1] = "SWM") =>
        LET data == packages[idx - 1][2] IN
        /\ info.distance = RDiv(RMul(R(data[1]), <<138, 100>>), R(1000))
        /\ data = <<720, 1, 80, 25, 40>> => out[idx - 1].distance = 994

C1_Witness ==
    /\ Processed
    /\ packages[idx - 1] = <<"SWM", <<720, 1, 80, 25, 40>>>>
    /\ out[idx - 1].distance = 994

(* C2, as stated: an unknown code fails with an error whose detail names   *)
(* the three valid codes                                                   *)
C2_NamesValidCodes ==
    (Dispatched /\ packages[Cur][1] \notin Codes) =>
        /\ pc = "failed"
        /\ Codes \subseteq Names(err.detail)

(* C2, amended: an unknown code builds no activity and fails with a        *)
(* KeyError whose only detail is the unknown code itself                   *)
C2_KeyError ==
    (Dispatched /\ packages[Cur][1] \notin Codes) =>
        /\ pc = "failed"
        /\ err.type = "KeyError"
        /\ err.detail = <<packages[Cur][1]>>
        /\ Names(err.detail) \cap Codes = {}
        /\ idx = 1 => training = None
        /\ Len(out) = idx - 1

C2_Witness ==
    /\ pc = "failed"
    /\ packages[idx] = <<"XYZ", <<720, 1, 75>>>>
    /\ err.type = "KeyError"

(* C3, as stated: a parameter list shorter or longer than the code's       *)
(* arity fails with an error that names the expected count                 *)
C3_NamesExpectedCount ==
    (Dispatched /\ packages[Cur][1] \in Codes
                /\ Len(packages[Cur][2]) # Arity(packages[Cur][1])) =>
        /\ pc = "failed"
        /\ err.type = "TypeError"
        /\ err.detail.takes \in {Arity(packages[Cur][1]), Arity(packages[Cur][1]) + 1}

(* C3, amended: a longer list fails with a TypeError that gives the number *)
(* of positional arguments the constructor takes, the instance included    *)
(* (arity + 1), and the number given; a shorter list fails with a          *)
(* TypeError that names the missing parameters and no count; neither       *)
(* builds an activity; a list of the exact arity is bound positionally     *)
C3_ArgumentCount ==
    (Dispatched /\ packages[Cur][1] \in Codes) =>
        LET code == packages[Cur][1]
            data == packages[Cur][2]
        IN  /\ Len(data) > Arity(code) =>
                /\ pc = "failed"
                /\ err.type = "TypeError"
                /\ err.detail.takes = Arity(code) + 1
                /\ err.detail.given = Len(data) + 1
                /\ err.detail.missing = <<>>
                /\ idx = 1 => training = None
            /\ Len(data) < Arity(code) =>
                /\ pc = "failed"
                /\ err.type = "TypeError"
                /\ err.detail.takes = 0
                /\ err.detail.missing = SubSeq(ParamOrder(code), Len(data) + 1, Arity(code))
                /\ idx = 1 => training = None
            /\ Len(data) = Arity(code) =>
                /\ DOMAIN training.attrs = Names(ParamOrder(code))
                /\ \A i \in 1..Arity(code) : training.attrs[ParamOrder(code)[i]] = data[i]
                /\ pc = "failed" => err.type = "ZeroDivisionError"

C3_Witness ==
    /\ pc = "failed"
    /\ packages[idx] = <<"RUN", <<720, 1>>>>
    /\ err.type = "TypeError"
    /\ err.detail.missing = <<"weight">>

(* C4: get_spent_calories on an instance of the base class raises, and so  *)
(* show_training_info on it never yields an InfoMessage                    *)
C4_BaseCaloriesRaise ==
    (pc = "calls" /\ training.cls = "Training") =>
        /\ \A i \in 1..Len(calls["get_spent_calories"]) :
               ~calls["get_spent_calories"][i].ok
        /\ \A i \in 1..Len(calls["show_training_info"]) :
               ~calls["show_training_info"][i].ok

(* the line the driver prints for a record that is processed without error *)
LineOf(r) == get_message(show_training_info(read_package(r[1], r[2]).obj).obj).obj

C5_State ==
    /\ Len(out) = idx - 1
    /\ \A i \in 1..Len(out) : out[i] = LineOf(packages[i])
    /\ pc = "done" => Len(out) = Len(packages)
    /\ (pc # "loop" /\ idx <= Len(packages)
          /\ ~read_package(packages[idx][1], packages[idx][2]).ok) => pc = "failed"

C5_Step ==
    /\ out' = out \/ (Len(out') = Len(out) + 1 /\ SubSeq(out', 1, Len(out)) = out)
    /\ pc = "failed" => (pc' = "failed" /\ out' = out)

(* C5: the driver prints one line per record, in input order, line k after *)
(* lines 1..k-1; when dispatching record k fails the run ends there, with  *)
(* k-1 lines printed and none printed afterwards                           *)
C5_OrderedOutput == []C5_State /\ [][C5_Step]_vars

C5_Witness ==
    /\ pc = "failed"
    /\ Len(packages) = 3
    /\ idx = 2
    /\ Len(out) = 1
    /\ ~read_package(packages[2][1], packages[2][2]).ok

(* C6: the mean speed of a Swimming activity with a positive duration is   *)
(* pool_length_m * pool_lap_count / 1000 / duration_hours                  *)
C6_SwimmingSpeed ==
    (Processed /\ packages[idx - 1][1] = "SWM") =>
        LET data == packages[idx - 1][2] IN
        /\ data[2] > 0
        /\ info.speed = RDiv(RDiv(RMul(R(data[4]), R(data[5])), R(1000)), R(data[2]))

C6_Witness ==
    /\ Processed
    /\ packages[idx - 1] = <<"SWM", <<0, 2, 80, 25, 40>>>>
    /\ info.speed = <<1, 2>>
    /\ info.distance = <<0, 1>>

(* C7, as stated: ("RUN", [15000, 1, 75]) prints distance 9.750, speed     *)
(* 9.750 and calories 815.888                                              *)
C7_Calories815 ==
    (Processed /\ packages[idx - 1] = <<"RUN", <<15000, 1, 75>>>>) =>
        /\ out[idx - 1].distance = 9750
        /\ out[idx - 1].speed = 9750
        /\ out[idx - 1].calories = 815888

(* C7, amended: ("RUN", [15000, 1, 75]) prints distance 9.750, speed 9.750 *)
(* and calories 797.805 = (18 * 9.75 + 1.79) * 75 / 1000 * 1 * 60          *)
C7_Calories797 ==
    (Processed /\ packages[idx - 1] = <<"RUN", <<15000, 1, 75>>>>) =>
        /\ out[idx - 1].distance = 9750
        /\ out[idx - 1].speed = 9750
        /\ out[idx - 1].calories = 797805
        /\ info.calories = <<159561, 200>>

C7_Witness ==
    /\ Processed
    /\ packages[idx - 1] = <<"RUN", <<15000, 1, 75>>>>
    /\ out[idx - 1].calories = 797805

(* C8, as stated: the label is "Running", "Walking" or "Swimming"          *)
C8_LabelWalking ==
    Processed =>
        info.training_type =
            (IF packages[idx - 1][1] = "RUN" THEN "Running"
             ELSE IF packages[idx - 1][1] = "WLK" THEN "Walking"
             ELSE "Swimming")

(* C8, amended: the InfoMessage carries the class name ("Running" for RUN, *)
(* "SportsWalking" for WLK, "Swimming" for SWM), the stored duration and   *)
(* the values of get_distance, get_mean_speed and get_spent_calories       *)
C8_Summary ==
    Processed =>
        /\ info.training_type =
               (IF packages[idx - 1][1] = "RUN" THEN "Running"
                ELSE IF packages[idx - 1][1] = "WLK" THEN "SportsWalking"
                ELSE "Swimming")
        /\ info.duration = R(packages[idx - 1][2][2])
        /\ info.distance = get_distance(training)
        /\ info.speed = get_mean_speed(training)
        /\ info.calories = get_spent_calories(training)

C8_Witness ==
    /\ Processed
    /\ packages[idx - 1][1] = "WLK"
    /\ info.training_type = "SportsWalking"
    /\ info.distance = <<13, 2>>
    /\ out[idx - 1].training_type = "SportsWalking"

(* C9, as stated: for every variant speed * duration = distance            *)
C9_SpeedTimesDuration ==
    Processed =>
        RMul(info.speed, info.duration) = info.distance

(* C9, amended: for Running and Walking the speed is the distance divided  *)
(* by the duration; for Swimming the speed is pool_length_m *              *)
(* pool_lap_count / 1000 / duration_hours while the distance is            *)
(* action_count * 1.38 / 1000, so the two agree only when                  *)
(* action_count * 1.38 = pool_length_m * pool_lap_count                    *)
C9_SpeedAndDistance ==
    Processed =>
        LET data == packages[idx - 1][2] IN
        IF packages[idx - 1][1] = "SWM"
        THEN (RMul(info.speed, info.duration) = info.distance)
                 <=> (data[1] * 138 = data[4] * data[5] * 100)
        ELSE info.speed = RDiv(info.distance, info.duration)

C9_Witness ==
    /\ Processed
    /\ packages[idx - 1] = <<"RUN", <<15000, 2, 75>>>>
    /\ info.distance = <<39, 4>>
    /\ info.speed = <<39, 8>>

C10_State ==
    \A m \in Methods : \A i \in 1..Len(calls[m]) : calls[m][i] = calls[m][1]

C10_Step ==
    pc = "calls" =>
        /\ training' = training
        /\ (info # None /\ calls'["show_training_info"] = calls["show_training_info"])
               => info' = info

(* C10: no call of get_distance, get_mean_speed, get_spent_calories,       *)
(* show_training_info or get_message changes an attribute, and every call  *)
(* of a method returns what its first call returned                        *)
C10_Immutable == []C10_State /\ [][C10_Step]_vars

C10_Witness ==
    /\ pc = "calls"
    /\ training.cls = "Swimming"
    /\ \A m \in Methods : Len(calls[m]) >= 2

====
